---------------------------- MODULE Spec2Model ----------------------------
(***************************************************************************)
(* A model of tools/decodeV2.py: the decoder of Lighthouse V2 sweep        *)
(* telemetry.  12-byte frames are decoded into pulses, pulses are grouped  *)
(* into SweepBlocks by PulseProcessor, finalized blocks are paired by the  *)
(* BaseStation of their channel, and each pair gives one Angles result.    *)
(*                                                                         *)
(* Python's None is the empty sequence and an object or number that is     *)
(* present is a one-element sequence, so that "x != None" and the          *)
(* truthiness tests of the source ("if not self.ts") are kept apart.       *)
(*                                                                         *)
(* Not modelled: the scan for the 12 sync bytes before the loop, the       *)
(* unpacking of the 12 bytes into the four words of a frame, the text      *)
(* that dump() prints, and the rounding of floating-point arithmetic.      *)
(* block and angles, unbound before the first iteration, start as None.    *)
(***************************************************************************)
EXTENDS Integers, Sequences, FiniteSets, TLC

VARIABLES
    src,              \* the frames of the input not yet read (src.read)
    reading,          \* the frame read last, None after a short read
    pc,               \* "loop" inside the while loop, "done" after it
    pulse_processor,  \* the PulseProcessor: block, latest_pulse
    base_stations,    \* the 16 BaseStation objects, by channel
    block,            \* what pulse_processor.push returned last
    angles,           \* what BaseStation.push returned last
    results,          \* the Angles dumped so far, in order
    trace,            \* what the last loop iteration did (observation only)
    input,            \* the whole input as it was at the start (observation only)
    unit              \* the object under test of the unit specifications

vars == <<src, reading, pc, pulse_processor, base_stations, block, angles,
          results, trace, input, unit>>

-----------------------------------------------------------------------------
(* Optional values *)

None == <<>>

Some(x) == <<x>>

Sensors == 0..3

-----------------------------------------------------------------------------
(* Timestamp arithmetic: 24-bit counters.  Python's & on a negative int    *)
(* gives the non-negative residue, as % does here.                         *)

TsModulus == 16777216

ts_sub_swapped(a, b) == (b - a) % TsModulus

ts_sub_unmasked(a, b) == a - b

ts_sub(a, b) == (a - b) % TsModulus

ts_add(a, b) == (a + b) % TsModulus

\* The cycle times of the 16 channels in 24 MHz ticks (48 MHz value / 2).
PERIODS ==
    <<479500, 478500, 476500, 474500, 473500, 471500, 470500, 469500,
      468500, 464500, 459500, 455500, 453500, 450500, 446500, 443500>>

-----------------------------------------------------------------------------
(* Angles.  An angle is kept exactly, as the fraction <<n, d>> of pi; the  *)
(* two beams of one sensor are fractions over the same period d.  The      *)
(* elevation atan(sin(beta/2)/tan(p/2)) is kept as its argument beta.      *)
(* Floating-point rounding is not modelled.                                *)

calculateAE_centred(firstBeam, secondBeam) ==
    LET d       == firstBeam[2]
        azimuth == <<firstBeam[1] + secondBeam[1], 2 * d>>
        beta    == <<3 * (secondBeam[1] - firstBeam[1]) - 2 * d, 3 * d>>
    IN  [azimuth |-> azimuth, elevation |-> [beta |-> beta]]

calculateAE(firstBeam, secondBeam) ==
    LET d       == firstBeam[2]
        azimuth == <<(firstBeam[1] + secondBeam[1]) - 2 * d, 2 * d>>
        beta    == <<3 * (secondBeam[1] - firstBeam[1]) - 2 * d, 3 * d>>
    IN  [azimuth |-> azimuth, elevation |-> [beta |-> beta]]

-----------------------------------------------------------------------------
(* SweepData and SweepBlock *)

SweepData(ts, width, offset, channel, slow_bit) ==
    [ts |-> ts, width |-> width, offset |-> offset,
     channel |-> channel, slow_bit |-> slow_bit]

SweepBlock_init ==
    [sensors |-> [i \in Sensors |-> None],
     channel |-> None,
     ts |-> None,
     is_valid |-> FALSE,
     offset_sensor |-> None,
     slow_bit |-> None]

\* SweepBlock.push: refuses an occupied slot.
SweepBlock_push(self, sensor, ts, width, offset, channel, slow_bit) ==
    IF self.sensors[sensor] # None
    THEN [ret |-> FALSE, self |-> self]
    ELSE [ret |-> TRUE,
          self |-> [self EXCEPT !.sensors[sensor] =
                        Some(SweepData(ts, width, offset, channel, slow_bit))]]

\* process(), lines 96-107: count the decoded channels; the first one becomes
\* the block's channel (with its slow bit), a different one ends process().
HasIdentity_truthy(sensor) == sensor.channel # None /\ sensor.channel # Some(0)

\* Line 98: "sensor.channel != None"; channel 0 is a channel.
HasIdentity(sensor) == sensor.channel # None

RECURSIVE ChannelScan(_, _, _)
ChannelScan(self, i, channel_count) ==
    IF i > 3
    THEN [returned |-> FALSE, self |-> self, channel_count |-> channel_count]
    ELSE LET sensor == self.sensors[i][1] IN
         IF HasIdentity(sensor)
         THEN LET s1 == IF self.channel = None
                        THEN [self EXCEPT !.channel = sensor.channel,
                                          !.slow_bit = sensor.slow_bit]
                        ELSE self
              IN  IF sensor.channel # s1.channel
                  THEN [returned |-> TRUE, self |-> s1,
                        channel_count |-> channel_count + 1]
                  ELSE ChannelScan(s1, i + 1, channel_count + 1)
         ELSE ChannelScan(self, i + 1, channel_count)

\* process(), lines 115-117.
SetChannels(self) ==
    [self EXCEPT !.sensors =
        [i \in Sensors |->
            Some([self.sensors[i][1] EXCEPT !.channel = self.channel,
                                            !.slow_bit = self.slow_bit])]]

\* process(), lines 121-127: the sensor with a nonzero offset; a second one
\* ends process().  offset_sensor holds the sensor's index.
RECURSIVE OffsetScan(_, _)
OffsetScan(self, i) ==
    IF i > 3
    THEN [returned |-> FALSE, self |-> self]
    ELSE IF self.sensors[i][1].offset # 0
         THEN IF self.offset_sensor # None
              THEN [returned |-> TRUE, self |-> self]
              ELSE OffsetScan([self EXCEPT !.offset_sensor = Some(i)], i + 1)
         ELSE OffsetScan(self, i + 1)

\* process(), lines 134-137.
CalculateOffsets(self) ==
    LET ref == self.sensors[self.offset_sensor[1]][1] IN
    [self EXCEPT !.sensors =
        [i \in Sensors |->
            LET sensor == self.sensors[i][1] IN
            IF sensor.offset = 0
            THEN Some([sensor EXCEPT !.offset =
                          ts_add(ref.offset, ts_sub(sensor.ts, ref.ts))])
            ELSE Some(sensor)]]

\* process(), lines 140-145: "not self.ts" is true of None and of 0.
RECURSIVE FirstTimestamp(_, _)
FirstTimestamp(self, i) ==
    IF i > 3
    THEN self
    ELSE LET sensor == self.sensors[i][1]
             s1 == IF self.ts = None \/ self.ts = Some(0)
                   THEN [self EXCEPT !.ts = Some(sensor.ts)]
                   ELSE self
             s2 == IF sensor.ts < s1.ts[1]
                   THEN [s1 EXCEPT !.ts = Some(sensor.ts)]
                   ELSE s1
         IN  FirstTimestamp(s2, i + 1)

ChannelCountOk_any(n) == n >= 3

ChannelCountOk(n) == n = 3

\* SweepBlock.process: the return value and the block as process() leaves it.
SweepBlock_process(self) ==
    IF \E i \in Sensors : self.sensors[i] = None
    THEN [ret |-> FALSE, self |-> self]
    ELSE
    LET c == ChannelScan(self, 0, 0) IN
    IF c.returned \/ ~ChannelCountOk(c.channel_count)
    THEN [ret |-> FALSE, self |-> c.self]
    ELSE
    LET o == OffsetScan([SetChannels(c.self) EXCEPT !.offset_sensor = None], 0) IN
    IF o.returned \/ o.self.offset_sensor = None
    THEN [ret |-> FALSE, self |-> o.self]
    ELSE [ret |-> TRUE,
          self |-> [FirstTimestamp(CalculateOffsets(o.self), 0)
                        EXCEPT !.is_valid = TRUE]]

-----------------------------------------------------------------------------
(* BaseStation: pairs the two sweeps of one revolution of its channel *)

SecondSweepWindow == 220000

BaseStation_init(channel) == [channel |-> channel, prev_block |-> None]

OffsetOrderOk_strict(a, b) == a.sensors[0][1].offset < b.sensors[0][1].offset

OffsetOrderOk(a, b) == ~(a.sensors[0][1].offset > b.sensors[0][1].offset)

WindowOk_exclusive(a, b) == ts_sub(b.ts[1], a.ts[1]) < SecondSweepWindow

WindowOk(a, b) == ~(ts_sub(b.ts[1], a.ts[1]) > SecondSweepWindow)

is_second_sweep(a, b) ==
    IF ~OffsetOrderOk(a, b) THEN FALSE
    ELSE IF ~WindowOk(a, b) THEN FALSE
    ELSE TRUE

\* Lines 232-233: (offset / period) * 2 * pi, as a fraction of pi.
Beam(offset, period) == <<2 * offset, period>>

\* BaseStation.process: the Angles of the pair (a, b).
BaseStation_process(self, a, b) ==
    [channel |-> self.channel,
     data |-> [i \in Sensors |->
                 LET offset0 == a.sensors[i][1].offset
                     offset1 == b.sensors[i][1].offset
                     period  == PERIODS[self.channel + 1]
                     firstBeam  == Beam(offset0, period)
                     secondBeam == Beam(offset1, period)
                 IN  calculateAE(firstBeam, secondBeam)]]

RearmBlock_keep(prev, blk) == prev

RearmBlock(prev, blk) == blk

ChannelMatches_any(self, blk) == TRUE

\* Line 190: the block is of the station's channel.
ChannelMatches(self, blk) == ~(blk.channel # Some(self.channel))

ClearPending_reuse(blk) == Some(blk)

\* Line 197: the pair is consumed, nothing is pending.
ClearPending(blk) == None

\* BaseStation.push: the result, the station afterwards, and whether
\* "Wrong channel!" was printed.
BaseStation_push(self, blk) ==
    IF ~ChannelMatches(self, blk)
    THEN [result |-> None, self |-> self, wrong |-> TRUE]
    ELSE IF self.prev_block # None
         THEN IF is_second_sweep(self.prev_block[1], blk)
              THEN [result |-> Some(BaseStation_process(self, self.prev_block[1], blk)),
                    self |-> [self EXCEPT !.prev_block = ClearPending(blk)],
                    wrong |-> FALSE]
              ELSE [result |-> None,
                    self |-> [self EXCEPT !.prev_block =
                                  Some(RearmBlock(self.prev_block[1], blk))],
                    wrong |-> FALSE]
         ELSE [result |-> None,
               self |-> [self EXCEPT !.prev_block = Some(blk)],
               wrong |-> FALSE]

-----------------------------------------------------------------------------
(* PulseProcessor: groups the pulses of one sweep into a SweepBlock *)

PulseGap == 10000

PulseProcessor_init == [block |-> None, latest_pulse |-> 0]

NewSweep_inclusive(delta) == delta >= PulseGap

NewSweep_wide(delta) == delta > PulseGap + 1

NewSweep(delta) == delta > PulseGap

Emitted_always(p) == Some(p.self)

Emitted(p) == IF p.ret THEN Some(p.self) ELSE None

AfterPush_keep(pushed) == Some(pushed.self)

\* Lines 267-269: a refused push drops the open block.
AfterPush(pushed) == IF pushed.ret THEN Some(pushed.self) ELSE None

AfterFinalize_keep(blk) == blk

\* Line 259: the finalized block is no longer the open block.
AfterFinalize(blk) == None

\* PulseProcessor.push: the block returned (or None), the processor
\* afterwards, whether process() was called and whether the open block was
\* dropped ("Drop block").
PulseProcessor_push(self, sensor, ts, width, offset, channel, slow_bit) ==
    LET delta    == ts_sub(ts, self.latest_pulse)
        finalize == NewSweep(delta) /\ self.block # None
        result   == IF finalize
                    THEN Emitted(SweepBlock_process(self.block[1]))
                    ELSE None
        blk1     == IF finalize THEN AfterFinalize(self.block) ELSE self.block
        blk2     == IF blk1 = None THEN SweepBlock_init ELSE blk1[1]
        pushed   == SweepBlock_push(blk2, sensor, ts, width, offset,
                                    channel, slow_bit)
    IN  [result |-> result,
         self |-> [block |-> AfterPush(pushed), latest_pulse |-> ts],
         processed |-> finalize,
         dropped |-> ~pushed.ret]

-----------------------------------------------------------------------------
(* The decode loop of __main__.  A frame is its four 24-bit little-endian  *)
(* words; a short read (fewer than 12 bytes) is None.                      *)

SyncOffset == 16777215

NoTrace == [kind |-> "none", processed |-> FALSE, dropped |-> FALSE,
            delivered |-> FALSE, wrong |-> FALSE]

\* src.read(12): the next frame, or a short read at the end of the input.
ReadFrame(s) == IF s = <<>> THEN None ELSE Some(Head(s))

Rest(s) == IF s = <<>> THEN <<>> ELSE Tail(s)

\* Lines 317-329: the pulse a frame carries.
FrameSensor(f) == f.first_word % 4

FrameWidth(f) == (f.first_word \div 256) % 65536

nPoly_ok(f) == ((f.first_word \div 128) % 2) = 0

FrameIdentity(f) == (f.first_word \div 4) % 32

FrameChannel(f) == IF nPoly_ok(f) THEN Some(FrameIdentity(f) \div 2) ELSE None

FrameSlowBit(f) == IF nPoly_ok(f) THEN Some(FrameIdentity(f) % 2) ELSE None

FrameOffset(f) == f.offset_6 * 4

IsSyncFrame_scaled(f) == FrameOffset(f) = SyncOffset

IsSyncFrame(f) == f.offset_6 = SyncOffset

\* Line 336: the push of the frame's pulse into the processor pp.
PushFrame(pp, f) ==
    PulseProcessor_push(pp, FrameSensor(f), f.timestamp, FrameWidth(f),
                        FrameOffset(f), FrameChannel(f), FrameSlowBit(f))

Route_first(blk) == 0

\* Line 340: base_stations[block.channel].
Route(blk) == blk.channel[1]

StoreStation_shared(stations, channel, station) == [i \in 0..15 |-> station]

\* Line 340: push() changes the BaseStation object at that index, in place.
StoreStation(stations, channel, station) == [stations EXCEPT ![channel] = station]

\* Lines 340-342: the block goes to the BaseStation of its channel.
Deliver(stations, blk) ==
    LET channel == Route(blk)
        t == BaseStation_push(stations[channel], blk)
    IN  [stations |-> StoreStation(stations, channel, t.self),
         angles |-> t.result,
         wrong |-> t.wrong]

\* One iteration of the while loop (lines 307-346).
LoopBody ==
    /\ pc = "loop"
    /\ reading # None
    /\ LET f == reading[1] IN
       IF IsSyncFrame(f)
       THEN /\ trace' = [NoTrace EXCEPT !.kind = "sync"]
            /\ UNCHANGED <<pulse_processor, base_stations, block, angles, results>>
       ELSE LET r == PushFrame(pulse_processor, f) IN
            /\ pulse_processor' = r.self
            /\ block' = r.result
            /\ IF r.result # None
               THEN LET t == Deliver(base_stations, r.result[1])
                    IN  /\ base_stations' = t.stations
                        /\ angles' = t.angles
                        /\ results' = IF t.angles # None
                                      THEN Append(results, t.angles[1])
                                      ELSE results
                        /\ trace' = [kind |-> "pulse", processed |-> r.processed,
                                     dropped |-> r.dropped, delivered |-> TRUE,
                                     wrong |-> t.wrong]
               ELSE /\ UNCHANGED <<base_stations, angles, results>>
                    /\ trace' = [kind |-> "pulse", processed |-> r.processed,
                                 dropped |-> r.dropped, delivered |-> FALSE,
                                 wrong |-> FALSE]
    /\ reading' = ReadFrame(src)
    /\ src' = Rest(src)
    /\ UNCHANGED <<pc, input, unit>>

\* The while condition fails on a short read: the program ends.
EndOfStream ==
    /\ pc = "loop"
    /\ reading = None
    /\ pc' = "done"
    /\ UNCHANGED <<src, reading, pulse_processor, base_stations, block, angles,
                   results, trace, input, unit>>

-----------------------------------------------------------------------------
(* The inputs of the pipeline: the frames of one sweep or of two, built    *)
(* from the parameters below, with sync frames and trailing pulses.        *)

MaxTail == 1

Orders == {<<0, 1, 2, 3>>, <<2, 3, 1, 0>>, <<0, 1, 2>>, <<0, 1, 1, 2>>,
           <<0, 1, 2, 3, 2>>}

NoIds == {{}, {0}, {3}, {1, 2}}

Odds == {"none", "slow", "chan", "zero"}

Offs == {{}, {0}, {2}, {1, 3}}

Steps == {1, PulseGap, PulseGap + 1}

Starts == {0, 5, TsModulus - 2}

SyncPositions == {0, 1, 3}

\* The 5-bit identity of a sensor's pulse: channel 3 slow bit 0, but for
\* the odd one (sensor 1: slow bit 1, or channel 0) or all of channel 0.
IdentityOf(sensor, odd) ==
    IF odd = "zero" THEN 0
    ELSE IF sensor = 1 /\ odd = "slow" THEN 7
    ELSE IF sensor = 1 /\ odd = "chan" THEN 0
    ELSE 6

PulseFrame(sensor, noid, odd, offs, raw, ts) ==
    [first_word |-> sensor + 4 * IdentityOf(sensor, odd)
                    + 128 * (IF sensor \in noid THEN 1 ELSE 0)
                    + 256 * (10 + sensor),
     offset_6 |-> IF sensor \in offs THEN raw ELSE 0,
     beam_word |-> 0,
     timestamp |-> ts]

\* A sync frame; its other fields are those of a pulse of the sensor.
SyncFrameAt(sensor, ts) ==
    [PulseFrame(sensor, {}, "none", {}, 0, ts) EXCEPT !.offset_6 = SyncOffset]

SweepFrames(order, noid, odd, offs, raw, step, t0) ==
    [k \in 1..Len(order) |->
        PulseFrame(order[k], noid, odd, offs, raw, ts_add(t0, (k - 1) * step))]

InsertAt(s, k, x) ==
    IF k = 0 THEN s ELSE SubSeq(s, 1, k - 1) \o <<x>> \o SubSeq(s, k, Len(s))

\* n pulses of sensor 0 after the time t, each PulseGap + 2 after the last.
TailFrames(t, n) ==
    [k \in 1..n |-> PulseFrame(0, {}, "none", {}, 0, ts_add(t, k * (PulseGap + 2)))]

LastTs(s) == s[Len(s)].timestamp

OneSweepInput(o, ni, od, of, st, t0, sp, n) ==
    LET sw == SweepFrames(o, ni, od, of, 1, st, t0) IN
    InsertAt(sw, sp, SyncFrameAt(sp, ts_add(t0, 50000))) \o TailFrames(LastTs(sw), n)

PairOrders == {<<0, 1, 2, 3>>, <<2, 3, 1, 0>>}

PairNoIds == {{0}, {3}}

PairOffs == {{0}, {2}}

PairRaws == {1, 3}

PairGaps == {PulseGap + 4, SecondSweepWindow, SecondSweepWindow + 1}

PairOdds == {"none", "zero"}

\* Two sweeps that each satisfy process(): a on channel 3 at t0, b on
\* channel 3 or 0 and g ticks after a.
TwoSweepInput(a, b, od, t0, g, n) ==
    LET sa == SweepFrames(a.order, a.noid, "none", a.offs, a.raw, 1, t0)
        sb == SweepFrames(b.order, b.noid, od, b.offs, b.raw, 1, ts_add(t0, g))
    IN  sa \o sb \o TailFrames(LastTs(sb), n)

SweepShapes == [order : PairOrders, noid : PairNoIds, offs : PairOffs, raw : PairRaws]

-----------------------------------------------------------------------------
(* The program: the state after line 305 and the loop *)

Init ==
    /\ \/ \E o \in Orders, ni \in NoIds, od \in Odds, of \in Offs, st \in Steps,
             t0 \in Starts, sp \in SyncPositions, n \in 0..MaxTail :
               input = OneSweepInput(o, ni, od, of, st, t0, sp, n)
       \/ \E a \in SweepShapes, b \in SweepShapes, od \in PairOdds, t0 \in Starts,
             g \in PairGaps, n \in 0..MaxTail :
               input = TwoSweepInput(a, b, od, t0, g, n)
    /\ src = Rest(input)
    /\ reading = ReadFrame(input)
    /\ pc = "loop"
    /\ pulse_processor = PulseProcessor_init
    /\ base_stations = [i \in 0..15 |-> BaseStation_init(i)]
    /\ block = None
    /\ angles = None
    /\ results = <<>>
    /\ trace = NoTrace
    /\ unit = None

Next == LoopBody \/ EndOfStream

Spec == Init /\ [][Next]_vars

-----------------------------------------------------------------------------
(* Unit specifications: one object at a time, its inputs drawn in Init or  *)
(* in the action.  The pipeline's variables stay as constructed.           *)

PipelineIdle ==
    /\ input = <<>>
    /\ src = <<>>
    /\ reading = None
    /\ pc = "unit"
    /\ pulse_processor = PulseProcessor_init
    /\ base_stations = [i \in 0..15 |-> BaseStation_init(i)]
    /\ block = None
    /\ angles = None
    /\ results = <<>>
    /\ trace = NoTrace

pipeline_vars == <<src, reading, pc, pulse_processor, base_stations, block,
                   angles, results, trace, input>>

(* ts_sub and ts_add on sampled 24-bit values *)

ArithSpan == 2

TsSamples ==
    (0..ArithSpan) \cup {TsModulus - 1 - k : k \in 0..ArithSpan}
      \cup {PulseGap, PulseGap + 1, SecondSweepWindow, TsModulus \div 2}

InitArith ==
    /\ PipelineIdle
    /\ unit \in {[op |-> "arith", a |-> a, b |-> b, done |-> FALSE,
                  sum |-> 0, back |-> 0, diff |-> 0] : a \in TsSamples, b \in TsSamples}

Arith ==
    /\ unit.op = "arith"
    /\ ~unit.done
    /\ unit' = [unit EXCEPT !.done = TRUE,
                            !.sum = ts_add(unit.a, unit.b),
                            !.back = ts_sub(ts_add(unit.a, unit.b), unit.b),
                            !.diff = ts_sub(unit.a, unit.b)]
    /\ UNCHANGED pipeline_vars

SpecArith == InitArith /\ [][Arith]_vars

(* SweepBlock.process on the blocks that pushes can build *)

BlockTs == {0, 1, TsModulus - 1}

BlockOffsets == {0, 4 * (SyncOffset - 1)}

BlockIdentities == {<<None, None>>, <<Some(3), Some(0)>>, <<Some(3), Some(1)>>,
                    <<Some(0), Some(0)>>}

SlotInputs ==
    {None} \cup {Some(SweepData(ts, 10, offset, id[1], id[2])) :
                   ts \in BlockTs, offset \in BlockOffsets, id \in BlockIdentities}

InitProcess ==
    /\ PipelineIdle
    /\ \E d \in [Sensors -> SlotInputs] :
         LET b == [SweepBlock_init EXCEPT !.sensors = d] IN
         unit = [op |-> "process", before |-> b, after |-> b, ret |-> None,
                 fin |-> None]

\* The block's process() is called.
Process ==
    /\ unit.op = "process"
    /\ unit.ret = None
    /\ LET r == SweepBlock_process(unit.before) IN
       unit' = [unit EXCEPT !.after = r.self, !.ret = Some(r.ret)]
    /\ UNCHANGED pipeline_vars

\* The timestamps of the block's pulses, and the one that arrived last
\* (the pulses of an open block arrive at most PulseGap apart).
BlockTimes(b) == {b.sensors[i][1].ts : i \in {j \in Sensors : b.sensors[j] # None}}

LatestPulse(b) ==
    CHOOSE t \in BlockTimes(b) : \A u \in BlockTimes(b) : ts_sub(t, u) <= PulseGap

\* The block is the open block of a PulseProcessor, and the pulse of the
\* next sweep is pushed.
Finalize ==
    /\ unit.op = "process"
    /\ unit.ret # None
    /\ unit.fin = None
    /\ BlockTimes(unit.before) # {}
    /\ LET latest == LatestPulse(unit.before)
           pp == [block |-> Some(unit.before), latest_pulse |-> latest]
       IN  unit' = [unit EXCEPT !.fin =
                       Some(PulseProcessor_push(pp, 0, ts_add(latest, PulseGap + 1),
                                                10, 0, None, None))]
    /\ UNCHANGED pipeline_vars

SpecProcess == InitProcess /\ [][Process \/ Finalize]_vars

(* BaseStation.push on finalized blocks *)

MaxPushes == 3

TrackerStarts == {5, SecondSweepWindow + 5, SecondSweepWindow + 6}

\* A finalized block: sensor i at t0 + i, sensor 3 without identity, the
\* offset on sensor ref.
FinalizedBlock(channel, t0, ref, raw) ==
    SweepBlock_process(
        [SweepBlock_init EXCEPT !.sensors =
            [i \in Sensors |->
                Some(SweepData(ts_add(t0, i), 10,
                               IF i = ref THEN 4 * raw ELSE 0,
                               IF i = 3 THEN None ELSE Some(channel),
                               IF i = 3 THEN None ELSE Some(0)))]]).self

TrackerBlocks ==
    {FinalizedBlock(c, t0, ref, raw) :
       c \in {0, 3}, t0 \in TrackerStarts, ref \in {0, 2}, raw \in {1, 3}}

InitTracker ==
    /\ PipelineIdle
    /\ unit \in {[op |-> "tracker", station |-> BaseStation_init(c), log |-> <<>>] :
                   c \in {0, 3}}

TrackerPush ==
    /\ unit.op = "tracker"
    /\ Len(unit.log) < MaxPushes
    /\ \E b \in TrackerBlocks :
         LET t == BaseStation_push(unit.station, b) IN
         unit' = [unit EXCEPT !.station = t.self,
                              !.log = Append(@, [before |-> unit.station.prev_block,
                                                 arg |-> b,
                                                 result |-> t.result,
                                                 after |-> t.self.prev_block,
                                                 wrong |-> t.wrong])]
    /\ UNCHANGED pipeline_vars

SpecTracker == InitTracker /\ [][TrackerPush]_vars

(* The 16 BaseStations of __main__ (lines 286-289) and the delivery of     *)
(* finalized blocks to them (lines 337-342).                               *)

MaxDeliveries == 3

StationChannels == {0, 3, 15}

StationBlocks ==
    {FinalizedBlock(c, t0, 0, raw) :
       c \in StationChannels, t0 \in TrackerStarts, raw \in {1, 3}}

InitStations ==
    /\ input = <<>>
    /\ src = <<>>
    /\ reading = None
    /\ pc = "unit"
    /\ pulse_processor = PulseProcessor_init
    /\ base_stations = [i \in 0..15 |-> BaseStation_init(i)]
    /\ block = None
    /\ angles = None
    /\ results = <<>>
    /\ trace = NoTrace
    /\ unit = [op |-> "stations", log |-> <<>>]

\* Lines 337-342 for a block that pulse_processor.push returned.
DeliverBlock ==
    /\ unit.op = "stations"
    /\ Len(unit.log) < MaxDeliveries
    /\ \E b \in StationBlocks :
         LET t == Deliver(base_stations, b) IN
         /\ block' = Some(b)
         /\ base_stations' = t.stations
         /\ angles' = t.angles
         /\ results' = IF t.angles # None THEN Append(results, t.angles[1])
                                          ELSE results
         /\ trace' = [kind |-> "pulse", processed |-> TRUE, dropped |-> FALSE,
                      delivered |-> TRUE, wrong |-> t.wrong]
         /\ unit' = [unit EXCEPT !.log = Append(@, [before |-> base_stations,
                                                    arg |-> b,
                                                    angles |-> t.angles])]
    /\ UNCHANGED <<src, reading, pc, pulse_processor, input>>

SpecStations == InitStations /\ [][DeliverBlock]_vars

(* BaseStation.process on pairs of blocks of every channel *)

AngleOffsets(c) == {0, 4, PERIODS[c + 1] \div 2, PERIODS[c + 1]}

\* A valid block of channel c whose sensor slot has the offset o; the
\* other sensors have the offset other, sensor i the timestamp t + i.
AngleBlock(c, slot, o, other, t) ==
    [SweepBlock_init EXCEPT
        !.sensors = [i \in Sensors |->
                        Some(SweepData(ts_add(t, i), 10,
                                       IF i = slot THEN o ELSE other,
                                       Some(c), Some(0)))],
        !.channel = Some(c),
        !.slow_bit = Some(0),
        !.ts = Some(t),
        !.offset_sensor = Some((slot + 1) % 4),
        !.is_valid = TRUE]

InitAngles ==
    /\ PipelineIdle
    /\ \E c \in 0..15, slot \in Sensors, other \in {4, 8}, t \in {1, 7} :
         \E o0 \in AngleOffsets(c), o1 \in AngleOffsets(c) :
           unit = [op |-> "angles", channel |-> c, slot |-> slot,
                   offset0 |-> o0, offset1 |-> o1,
                   a |-> AngleBlock(c, slot, o0, other, t),
                   b |-> AngleBlock(c, slot, o1, other, t + 3),
                   firstBeam |-> None, secondBeam |-> None, result |-> None]

\* BaseStation.process(a, b) of the station of the channel.
ComputeAngles ==
    /\ unit.op = "angles"
    /\ unit.result = None
    /\ unit' = [unit EXCEPT
                  !.firstBeam = Some(Beam(unit.offset0, PERIODS[unit.channel + 1])),
                  !.secondBeam = Some(Beam(unit.offset1, PERIODS[unit.channel + 1])),
                  !.result = Some(BaseStation_process(BaseStation_init(unit.channel),
                                                      unit.a, unit.b))]
    /\ UNCHANGED pipeline_vars

SpecAngles == InitAngles /\ [][ComputeAngles]_vars

-----------------------------------------------------------------------------
(* Properties *)

\* What a block holds before process(): its filled slots, the sensors with
\* a decoded identity and the sensors with a nonzero offset.
Filled(b) == {i \in Sensors : b.sensors[i] # None}

Identified(b) == {i \in Filled(b) : b.sensors[i][1].channel # None}

WithOffset(b) == {i \in Filled(b) : b.sensors[i][1].offset # 0}

ChannelsAgree(b) ==
    \A i, j \in Identified(b) : b.sensors[i][1].channel = b.sensors[j][1].channel

SlowBitsAgree(b) ==
    \A i, j \in Identified(b) : b.sensors[i][1].slow_bit = b.sensors[j][1].slow_bit

WellFormed(b) ==
    /\ Filled(b) = Sensors
    /\ Cardinality(Identified(b)) = 3
    /\ ChannelsAgree(b)
    /\ Cardinality(WithOffset(b)) = 1

Congruent(x, y) == (x - y) % TsModulus = 0

\* C1: process() on a block with 4 filled slots, exactly 3 decoded identities
\* that agree and exactly one nonzero offset returns True and marks the block
\* valid; each other sensor's offset minus the reference offset is congruent
\* mod 2^24 to its timestamp minus the reference timestamp, and the reference
\* sensor keeps its offset.
C1_ProcessBackfills ==
    (unit.ret # None /\ WellFormed(unit.before)) =>
        LET ref == CHOOSE i \in Sensors : i \in WithOffset(unit.before)
            old == unit.before.sensors
            new == unit.after.sensors
        IN  /\ unit.ret = Some(TRUE)
            /\ unit.after.is_valid
            /\ new[ref][1].offset = old[ref][1].offset
            /\ \A i \in Sensors \ {ref} :
                 Congruent(new[i][1].offset - new[ref][1].offset,
                           old[i][1].ts - old[ref][1].ts)

\* A well-formed block was processed whose reference pulse is later than
\* another pulse across the wrap of the counter.
C1_Witness ==
    /\ unit.ret = Some(TRUE)
    /\ WellFormed(unit.before)
    /\ \E i \in Sensors :
         /\ i \notin WithOffset(unit.before)
         /\ \E r \in WithOffset(unit.before) :
              /\ unit.before.sensors[r][1].ts = 0
              /\ unit.before.sensors[i][1].ts = TsModulus - 1
              /\ unit.after.sensors[i][1].offset # 0

Defective(b) ==
    \/ Filled(b) # Sensors
    \/ Cardinality(Identified(b)) # 3
    \/ Cardinality(WithOffset(b)) # 1

\* C2: process() returns False for every block with an empty slot, or with a
\* number of decoded identities other than 3, or with 0 or at least 2 nonzero
\* offsets, and the PulseProcessor that finalizes such a block returns nothing.
C2_DefectiveBlockFails ==
    Defective(unit.before) =>
        /\ unit.ret # None => unit.ret = Some(FALSE)
        /\ unit.fin # None => unit.fin[1].result = None

\* A full block with 4 agreeing identities and one offset was finalized by the
\* PulseProcessor.
C2_Witness ==
    /\ unit.fin # None
    /\ unit.fin[1].processed
    /\ Filled(unit.before) = Sensors
    /\ Cardinality(Identified(unit.before)) = 4
    /\ ChannelsAgree(unit.before)
    /\ Cardinality(WithOffset(unit.before)) = 1

\* C3: in every block that process() accepts, all the sensors that carried a
\* decoded identity carried the same channel and the same slow bit.
C3_IdentitiesAgree ==
    unit.ret = Some(TRUE) =>
        ChannelsAgree(unit.before) /\ SlowBitsAgree(unit.before)

\* C9: ts_sub(ts_add(a, b), b) = a, and 0 <= ts_sub(a, b) < 2^24.
C9_WrapRoundTrip ==
    unit.done =>
        /\ unit.back = unit.a
        /\ 0 <= unit.diff
        /\ unit.diff < 16777216

\* A sum and a difference that both wrap were computed.
C9_Witness ==
    /\ unit.done
    /\ unit.a < unit.b
    /\ unit.a + unit.b >= 16777216
    /\ unit.sum < unit.a

\* The k-th and the next push of the tracker's log are of its own channel.
OwnPair(k) ==
    /\ k + 1 <= Len(unit.log)
    /\ unit.log[k].arg.channel = Some(unit.station.channel)
    /\ unit.log[k + 1].arg.channel = Some(unit.station.channel)

Sensor0Offset(b) == b.sensors[0][1].offset

TsDelta(a, b) == (b.ts[1] - a.ts[1]) % TsModulus

SecondSweepOf(a, b) ==
    /\ Sensor0Offset(a) <= Sensor0Offset(b)
    /\ TsDelta(a, b) <= 220000

\* C4: a tracker in the Empty state that is pushed two finalized blocks A and
\* B of its channel, with A.sensors[0].offset <= B.sensors[0].offset and a
\* wrapping B.ts - A.ts of at most 220000, gives nothing on the first push and
\* one Angles on the second, and holds no pending block afterwards.
C4_PairGivesOneResult ==
    \A k \in 1..Len(unit.log) :
        (/\ OwnPair(k)
         /\ unit.log[k].before = None
         /\ SecondSweepOf(unit.log[k].arg, unit.log[k + 1].arg)) =>
            /\ unit.log[k].result = None
            /\ unit.log[k + 1].result # None
            /\ unit.log[k + 1].result[1].channel = unit.station.channel
            /\ unit.log[k + 1].after = None

\* Two blocks exactly 220000 ticks apart, with equal sensor-0 offsets, were
\* pushed to an empty tracker.
C4_Witness ==
    /\ OwnPair(1)
    /\ TsDelta(unit.log[1].arg, unit.log[2].arg) = 220000
    /\ Sensor0Offset(unit.log[1].arg) = Sensor0Offset(unit.log[2].arg)
    /\ unit.log[2].result # None
    /\ unit.station.prev_block = None

\* C5: a tracker with pending block A that is pushed a block B of its channel
\* with A.sensors[0].offset > B.sensors[0].offset, or with a wrapping
\* B.ts - A.ts above 220000, gives nothing, and its pending block is then B
\* as it was pushed.
C5_StalePendingReplaced ==
    \A k \in 1..Len(unit.log) :
        (/\ unit.log[k].before # None
         /\ unit.log[k].arg.channel = Some(unit.station.channel)
         /\ ~SecondSweepOf(unit.log[k].before[1], unit.log[k].arg)) =>
            /\ unit.log[k].result = None
            /\ unit.log[k].after = Some(unit.log[k].arg)

\* A block 220001 ticks after the pending one, with a larger sensor-0 offset,
\* replaced it.
C5_Witness ==
    /\ Len(unit.log) = 2
    /\ unit.log[2].before # None
    /\ unit.log[2].arg.channel = Some(unit.station.channel)
    /\ TsDelta(unit.log[2].before[1], unit.log[2].arg) = 220001
    /\ Sensor0Offset(unit.log[2].before[1]) < Sensor0Offset(unit.log[2].arg)
    /\ unit.station.prev_block = Some(unit.log[2].arg)
    /\ unit.log[2].before[1] # unit.log[2].arg

\* The loop is about to handle a frame that carries a pulse.
AtPulse == pc = "loop" /\ reading # None /\ reading[1].offset_6 # 16777215

PulseDelta == (reading[1].timestamp - pulse_processor.latest_pulse) % TsModulus

\* A new block that holds the pulse of frame f and nothing else.
OnlyPulseOf(b, f) ==
    /\ b # None
    /\ Filled(b[1]) = {f.first_word % 4}
    /\ b[1].sensors[f.first_word % 4][1].ts = f.timestamp
    /\ b[1].sensors[f.first_word % 4][1].offset = 4 * f.offset_6
    /\ ~b[1].is_valid
    /\ b[1].channel = None /\ b[1].ts = None

SamePulses(a, b) ==
    \A i \in Sensors :
        /\ a.sensors[i][1].ts = b.sensors[i][1].ts
        /\ a.sensors[i][1].width = b.sensors[i][1].width

\* The 4 frames of one sweep of channel c that process() accepts: one pulse
\* per sensor, 3 of them with an identity, of channel c, one with an offset,
\* each pulse at most 10000 ticks after the one before.
SweepOfChannel(fs, c) ==
    /\ Len(fs) = 4
    /\ \A k \in 1..4 : fs[k].offset_6 # 16777215
    /\ {fs[k].first_word % 4 : k \in 1..4} = Sensors
    /\ Cardinality({k \in 1..4 : (fs[k].first_word \div 128) % 2 = 0}) = 3
    /\ \A k \in 1..4 : (fs[k].first_word \div 128) % 2 = 0
                          => (fs[k].first_word \div 8) % 16 = c
    /\ Cardinality({k \in 1..4 : fs[k].offset_6 # 0}) = 1
    /\ \A k \in 2..4 : (fs[k].timestamp - fs[k - 1].timestamp) % TsModulus <= 10000

\* The block of the 4 frames of a sweep, as process() leaves it.
BlockOfSweep(fs) ==
    SweepBlock_process(
        [SweepBlock_init EXCEPT !.sensors =
            [i \in Sensors |->
                LET f == fs[CHOOSE k \in 1..4 : FrameSensor(fs[k]) = i] IN
                Some(SweepData(f.timestamp, FrameWidth(f), FrameOffset(f),
                               FrameChannel(f), FrameSlowBit(f)))]]).self

\* Two such sweeps, the second more than 10000 ticks after the first, their
\* blocks at most 220000 ticks apart with a non-decreasing sensor-0 offset.
RevolutionPair(in) ==
    /\ Len(in) >= 8
    /\ SweepOfChannel(SubSeq(in, 1, 4), 3)
    /\ SweepOfChannel(SubSeq(in, 5, 8), 3)
    /\ (in[5].timestamp - in[4].timestamp) % TsModulus > 10000
    /\ SecondSweepOf(BlockOfSweep(SubSeq(in, 1, 4)), BlockOfSweep(SubSeq(in, 5, 8)))

OneResultOfChannel(c) == Len(results) = 1 /\ results[1].channel = c

\* C6, as stated: the 8 frames of one revolution pair on channel 3, then the
\* end of the input, give exactly one Angles, of channel 3.
C6_AsClaimed ==
    (pc = "done" /\ Len(input) = 8 /\ RevolutionPair(input)) => OneResultOfChannel(3)

\* C6, amended: the 8 frames of one revolution pair on channel 3, then one
\* more pulse frame more than 10000 ticks after the last pulse of the second
\* sweep, then the end of the input, give exactly one Angles, of channel 3;
\* without that frame the second sweep is never finalized.
C6_PairThenPulse ==
    /\ (/\ pc = "done"
        /\ Len(input) = 9
        /\ RevolutionPair(input)
        /\ input[9].offset_6 # 16777215
        /\ (input[9].timestamp - input[8].timestamp) % TsModulus > 10000)
            => OneResultOfChannel(3)
    /\ (pc = "done" /\ Len(input) = 8 /\ RevolutionPair(input)) => results = <<>>

\* The 9 frames were decoded, the sweeps 220000 ticks apart.
C6_Witness ==
    /\ pc = "done"
    /\ Len(input) = 9
    /\ RevolutionPair(input)
    /\ TsDelta(BlockOfSweep(SubSeq(input, 1, 4)), BlockOfSweep(SubSeq(input, 5, 8))) = 220000
    /\ OneResultOfChannel(3)

\* C7: a push whose pulse is more than 10000 ticks after the latest pulse, with
\* a block open, calls process() on that block and returns it exactly when it
\* is well formed (process() succeeds); the open block is then a new block
\* with the pushed pulse only.  A push at most 10000 ticks after the latest
\* pulse returns no block.
C7_GapFinalizes ==
    [][AtPulse =>
        /\ (PulseDelta > 10000 /\ pulse_processor.block # None) =>
              /\ trace'.processed
              /\ block' # None <=> WellFormed(pulse_processor.block[1])
              /\ block' # None =>
                    /\ block'[1].is_valid
                    /\ SamePulses(block'[1], pulse_processor.block[1])
              /\ OnlyPulseOf(pulse_processor'.block, reading[1])
        /\ PulseDelta <= 10000 => block' = None /\ ~trace'.processed]_vars

\* A push returned the block it finalized.
C7_Witness ==
    /\ trace.processed
    /\ block # None
    /\ Cardinality(Filled(pulse_processor.block[1])) = 1

\* C8: a push within 10000 ticks of the latest pulse whose sensor slot is
\* taken in the open block drops that block without calling process(), returns
\* nothing and leaves no open block; the next pulse opens a new block that
\* holds that pulse only.
C8_DuplicateDropsBlock ==
    [][AtPulse =>
        /\ (/\ PulseDelta <= 10000
            /\ pulse_processor.block # None
            /\ reading[1].first_word % 4 \in Filled(pulse_processor.block[1])) =>
              /\ ~trace'.processed
              /\ trace'.dropped
              /\ block' = None
              /\ pulse_processor'.block = None
        /\ pulse_processor.block = None =>
              OnlyPulseOf(pulse_processor'.block, reading[1])]_vars

\* A block was dropped and the next pulse has opened a new one.
C8_Witness ==
    /\ Len(input) >= 4
    /\ Len(src) + 4 = Len(input)
    /\ input[2].first_word % 4 = input[3].first_word % 4
    /\ (input[3].timestamp - input[2].timestamp) % TsModulus <= 10000
    /\ input[3].offset_6 # 16777215 /\ input[2].offset_6 # 16777215
    /\ OnlyPulseOf(pulse_processor.block, input[4])

\* C10: a frame with offset_raw = 0xFFFFFF leaves the open block, the latest
\* pulse, the 16 trackers and the results as they are, whatever its other
\* fields are.
C10_SyncFrameSkipped ==
    [][(pc = "loop" /\ reading # None /\ reading[1].offset_6 = 16777215) =>
          /\ pulse_processor' = pulse_processor
          /\ base_stations' = base_stations
          /\ results' = results
          /\ trace'.kind = "sync"]_vars

\* A sync frame was skipped while a block was open.
C10_Witness ==
    /\ trace.kind = "sync"
    /\ pulse_processor.block # None
    /\ pulse_processor.latest_pulse # 0

\* C11: a push of a block whose channel is not the tracker's returns nothing
\* and leaves the pending block as it was, whether the tracker was empty or
\* had a block pending.
C11_MismatchIgnored ==
    \A k \in 1..Len(unit.log) :
        unit.log[k].arg.channel # Some(unit.station.channel) =>
            /\ unit.log[k].result = None
            /\ unit.log[k].after = unit.log[k].before
            /\ unit.log[k].wrong

\* A block of another channel was pushed to the empty tracker, and another
\* one while a block was pending.
C11_Witness ==
    /\ Len(unit.log) = 3
    /\ unit.log[1].arg.channel # Some(unit.station.channel)
    /\ unit.log[1].before = None
    /\ unit.log[2].arg.channel = Some(unit.station.channel)
    /\ unit.log[3].arg.channel # Some(unit.station.channel)
    /\ unit.log[3].before = Some(unit.log[2].arg)
    /\ unit.station.prev_block = Some(unit.log[2].arg)

\* The results of delivering x and then y to the stations s, as a set.
ResultsOf(s, x, y) ==
    {Deliver(s, x).angles, Deliver(Deliver(s, x).stations, y).angles} \ {None}

StationsAfter(s, x, y) == Deliver(Deliver(s, x).stations, y).stations

\* Whenever two blocks of different channels were delivered one after the
\* other, the delivery in the other order gives the same trackers and the
\* same set of results.
DeliveryCommutes ==
    \A k \in 1..(Len(unit.log) - 1) :
        LET x == unit.log[k]
            y == unit.log[k + 1]
            now == IF k + 2 <= Len(unit.log) THEN unit.log[k + 2].before
                                             ELSE base_stations
        IN  x.arg.channel # y.arg.channel =>
              /\ now = StationsAfter(x.before, y.arg, x.arg)
              /\ {x.angles, y.angles} \ {None} = ResultsOf(x.before, y.arg, x.arg)

\* A delivery changes no tracker but the one of the block's channel.
DeliveryFrame ==
    \A c \in 0..15 :
        (block' # None /\ block'[1].channel # Some(c)) =>
            base_stations'[c] = base_stations[c]

\* C12: delivering a block to the tracker of its channel leaves every other
\* tracker as it was, and two blocks of different channels delivered one
\* after the other give the same trackers and the same set of results as in
\* the other order of delivery.
C12_TrackersIndependent == []DeliveryCommutes /\ [][DeliveryFrame]_vars

\* A pair of channel 0 gave its result although a block of channel 3 was
\* delivered in between, and that block is still pending.
C12_Witness ==
    /\ unit.op = "stations"
    /\ Len(unit.log) = 3
    /\ unit.log[2].arg.channel = Some(3)
    /\ Len(results) = 1
    /\ results[1].channel = 0
    /\ angles # None
    /\ base_stations[3].prev_block # None
    /\ base_stations[0].prev_block = None

\* A full block in which three sensors carry channel 0 and one carries no
\* identity, with exactly one nonzero offset.
ChannelZeroBlock(b) ==
    /\ Filled(b) = Sensors
    /\ Cardinality(Identified(b)) = 3
    /\ \A i \in Identified(b) : b.sensors[i][1].channel = Some(0)
    /\ Cardinality(WithOffset(b)) = 1

\* C13: when the pulse that ends the sweep arrives, an open block of three
\* channel-0 identities and one missing identity is finalized with channel 0,
\* returned by the aggregator and delivered to the tracker of channel 0, which
\* takes it as its pending block (or pairs it); no other tracker changes.
C13_ChannelZeroIsIdentity ==
    [][(/\ AtPulse
        /\ PulseDelta > 10000
        /\ pulse_processor.block # None
        /\ ChannelZeroBlock(pulse_processor.block[1])) =>
          /\ block' # None
          /\ block'[1].is_valid
          /\ block'[1].channel = Some(0)
          /\ SamePulses(block'[1], pulse_processor.block[1])
          /\ trace'.delivered
          /\ ~trace'.wrong
          /\ \/ base_stations'[0].prev_block = block'
             \/ angles' # None /\ angles'[1].channel = 0
          /\ \A c \in 1..15 : base_stations'[c] = base_stations[c]]_vars

\* A block of channel 0 is pending at the tracker of channel 0.
C13_Witness ==
    /\ trace.delivered
    /\ block # None
    /\ block[1].channel = Some(0)
    /\ base_stations[0].prev_block = block
    /\ \E k \in 1..4 : (input[k].first_word \div 128) % 2 = 1

\* The fraction <<n, d>> of pi is the number x / y times pi (d > 0, y > 0, and
\* d a multiple of y, which keeps the products small).
FractionIs(f, x, y) == f[2] > 0 /\ f[2] % y = 0 /\ f[1] = x * (f[2] \div y)

\* C14: for every channel and sensor slot the azimuth of the offsets o0 and o1
\* is pi * ((o0 + o1) / PERIODS[c] - 1); the offsets 0 and PERIODS[c] / 2 give
\* the beams 0 and pi and the azimuth -pi / 2; and the same two offsets give
\* the same angles in any slot and with any other content of the two blocks.
C14_AngleModel ==
    unit.result # None =>
        LET c == unit.channel
            P == PERIODS[c + 1]
            r == unit.result[1].data[unit.slot]
        IN  /\ unit.result[1].channel = c
            /\ FractionIs(r.azimuth, unit.offset0 + unit.offset1 - P, P)
            /\ (unit.offset0 = 0 /\ 2 * unit.offset1 = P) =>
                  /\ FractionIs(unit.firstBeam[1], 0, 1)
                  /\ FractionIs(unit.secondBeam[1], 1, 1)
                  /\ FractionIs(r.azimuth, -1, 2)
            /\ \A slot \in Sensors, other \in {4, 12}, t \in {1, 9} :
                  BaseStation_process(
                      BaseStation_init(c),
                      AngleBlock(c, slot, unit.offset0, other, t),
                      AngleBlock(c, slot, unit.offset1, other, t + 5)).data[slot] = r

\* The angles of the offsets 0 and PERIODS[15] / 2 were computed for sensor 3.
C14_Witness ==
    /\ unit.op = "angles"
    /\ unit.result # None
    /\ unit.channel = 15
    /\ unit.slot = 3
    /\ unit.offset0 = 0
    /\ unit.offset1 = 221750
    /\ unit.result[1].data[3].azimuth = <<-443500, 887000>>

\* The least of the 4 sensor timestamps, as numbers.
MinTimestamp(b) ==
    CHOOSE t \in BlockTimes(b) : \A u \in BlockTimes(b) : t <= u

\* C15: after a successful process() the block's ts is the numeric minimum
\* of the 4 sensor timestamps.
C15_TsIsMinimum ==
    unit.ret = Some(TRUE) => unit.after.ts = Some(MinTimestamp(unit.before))

\* C16: every sensor offset pushed into a block, and every sensor offset of a
\* block that process() accepted, is at least 0 and below 2^24.
C16_OffsetsAre24Bit ==
    /\ \A i \in Filled(unit.before) :
          /\ 0 <= unit.before.sensors[i][1].offset
          /\ unit.before.sensors[i][1].offset < 16777216
    /\ unit.ret = Some(TRUE) =>
          \A i \in Sensors :
              /\ 0 <= unit.after.sensors[i][1].offset
              /\ unit.after.sensors[i][1].offset < 16777216

\* process() has not been called on the block: it has none of the fields
\* that process() derives.
Pristine(b) ==
    /\ ~b.is_valid
    /\ b.channel = None
    /\ b.slow_bit = None
    /\ b.ts = None
    /\ b.offset_sensor = None

\* The open block is no longer the aggregator's after the step: the open
\* block afterwards is not that block with one more pulse.
OpenBlockLeaves ==
    /\ pulse_processor.block # None
    /\ \/ pulse_processor'.block = None
       \/ Cardinality(Filled(pulse_processor'.block[1]))
            <= Cardinality(Filled(pulse_processor.block[1]))

\* A block is handed on only by the push that finalized it, successfully, and
\* the open block is one that process() was never called on.
HandedOnFinalized ==
    /\ block' # None =>
          /\ trace'.processed
          /\ trace'.delivered
          /\ block'[1].is_valid
          /\ SamePulses(block'[1], pulse_processor.block[1])
    /\ trace'.processed =>
          /\ OpenBlockLeaves
          /\ Pristine(pulse_processor.block[1])
          /\ OnlyPulseOf(pulse_processor'.block, reading[1])
    /\ pulse_processor'.block # None => Pristine(pulse_processor'.block[1])
    /\ \A c \in 0..15 :
          base_stations'[c].prev_block \in
              {base_stations[c].prev_block, None, block'}

\* C17, as stated: every block that leaves the aggregator does so in a push
\* that calls process() on it, once.
C17_AsClaimed ==
    [][AtPulse => /\ HandedOnFinalized
                  /\ OpenBlockLeaves => trace'.processed]_vars

\* C17, amended: a block leaves the aggregator either in the push that calls
\* process() on it, for the first and only time, or, without process() being
\* called at all, in a push within 10000 ticks whose sensor slot it has
\* filled already; a block is handed to a tracker only after its process()
\* has succeeded.
C17_FinalizedAtMostOnce ==
    [][AtPulse =>
        /\ HandedOnFinalized
        /\ OpenBlockLeaves => (trace'.processed # trace'.dropped)
        /\ trace'.dropped =>
              /\ ~trace'.processed
              /\ PulseDelta <= 10000
              /\ reading[1].first_word % 4 \in Filled(pulse_processor.block[1])
              /\ block' = None
              /\ pulse_processor'.block = None]_vars

\* An open block with two pulses was dropped, process() not called, and
\* nothing was handed on.
C17_Witness ==
    /\ trace.dropped
    /\ ~trace.processed
    /\ pulse_processor.block = None
    /\ block = None
    /\ Len(input) - Len(src) = 4
    /\ results = <<>>

\* C18: in the pipeline the pending block of the tracker of channel c is a
\* valid block with its 4 slots filled and of channel c, no push ever takes
\* the channel-mismatch branch, and the channel of every block the aggregator
\* returns is one of 0..15.
C18_PendingIsOwnValidBlock ==
    /\ \A c \in 0..15 :
          /\ base_stations[c].channel = c
          /\ base_stations[c].prev_block # None =>
                /\ base_stations[c].prev_block[1].is_valid
                /\ Filled(base_stations[c].prev_block[1]) = Sensors
                /\ base_stations[c].prev_block[1].channel = Some(c)
    /\ ~trace.wrong
    /\ block # None =>
          /\ block[1].channel # None
          /\ block[1].channel[1] \in 0..15
    /\ DOMAIN base_stations = 0..15

\* A block of channel 3 is pending while a block of channel 0 has just been
\* delivered to its own tracker.
C18_Witness ==
    /\ trace.delivered
    /\ block # None
    /\ block[1].channel = Some(0)
    /\ base_stations[3].prev_block # None
    /\ base_stations[0].prev_block # None

\* The pushes of the log that the tracker accepted (its own channel), and
\* those that gave an Angles.
AcceptedPushes == {k \in 1..Len(unit.log) : ~unit.log[k].wrong}

EmittingPushes == {k \in 1..Len(unit.log) : unit.log[k].result # None}

\* C19: a push that gives an Angles consumes the pending block and the pushed
\* one, leaving nothing pending, so the next accepted block starts a new pair;
\* the tracker has given at most half as many Angles as it has accepted
\* blocks.
C19_BlockUsedOnce ==
    /\ 2 * Cardinality(EmittingPushes) <= Cardinality(AcceptedPushes)
    /\ \A k \in EmittingPushes :
          /\ k \in AcceptedPushes
          /\ unit.log[k].before # None
          /\ unit.log[k].after = None
          /\ k + 1 \in AcceptedPushes =>
                /\ unit.log[k + 1].result = None
                /\ unit.log[k + 1].after = Some(unit.log[k + 1].arg)

\* Three blocks of the tracker's channel, each a second sweep of the one
\* before: the first two gave an Angles, the third is pending.
C19_Witness ==
    /\ Len(unit.log) = 3
    /\ AcceptedPushes = {1, 2, 3}
    /\ EmittingPushes = {2}
    /\ SecondSweepOf(unit.log[2].arg, unit.log[3].arg)
    /\ unit.station.prev_block = Some(unit.log[3].arg)

\* The number of frames the loop has handled, the last one being the frame
\* whose push returned the block.
Handled == Len(input) - Len(src) - (IF reading = None THEN 0 ELSE 1)

\* The frames before the k-th that carry a pulse, and the last 4 of them.
PulsesBefore(k) == {j \in 1..(k - 1) : input[j].offset_6 # 16777215}

LastFour(k) ==
    {j \in PulsesBefore(k) : Cardinality({i \in PulsesBefore(k) : i > j}) < 4}

PreviousPulse(j) == CHOOSE p \in PulsesBefore(j) : \A i \in PulsesBefore(j) : i <= p

ArrivalDelta(j) ==
    (input[j].timestamp - input[PreviousPulse(j)].timestamp) % TsModulus

\* C20: the block a push returns holds the 4 pulses that arrived last before
\* the pushed one, one per sensor; each of them but the first arrived at most
\* 10000 ticks (mod 2^24) after the pulse before it, and the pushed pulse,
\* which arrived more than 10000 ticks after the last of them, is not in the
\* block but alone in the new open block.
C20_EmittedBlockIsOneBurst ==
    (trace.kind = "pulse" /\ trace.processed /\ block # None) =>
        LET k == Handled
            four == LastFour(k)
            first == CHOOSE j \in four : \A i \in four : j <= i
            f == input[k]
        IN  /\ Cardinality(four) = 4
            /\ {input[j].first_word % 4 : j \in four} = Sensors
            /\ \A j \in four :
                  /\ block[1].sensors[input[j].first_word % 4][1].ts
                        = input[j].timestamp
                  /\ block[1].sensors[input[j].first_word % 4][1].width
                        = (input[j].first_word \div 256) % 65536
                  /\ j # first => ArrivalDelta(j) <= 10000
            /\ f.offset_6 # 16777215
            /\ ArrivalDelta(k) > 10000
            /\ block[1].sensors[f.first_word % 4][1].ts # f.timestamp
            /\ OnlyPulseOf(pulse_processor.block, f)

\* A block was returned whose pulses arrived 10000 ticks apart, with a sync
\* frame between two of them.
C20_Witness ==
    /\ trace.kind = "pulse"
    /\ trace.processed
    /\ block # None
    /\ Handled = 6
    /\ \E j \in 1..5 : input[j].offset_6 = 16777215
    /\ \E j \in LastFour(6) : PulsesBefore(j) # {} /\ ArrivalDelta(j) = 10000

=============================================================================
